---- MODULE Spec2Model ----
(***************************************************************************)
(* appendToCSS.module.js: the rule reconciliation routine appendToCSS and  *)
(* the nonce registrar getNonce, together with the part of the document    *)
(* they read and write (the element carrying data-nonce, the STYLE         *)
(* elements appended to the head and the rule lists of their sheets), and  *)
(* site.module.js: the listeners of the demonstration page that call them. *)
(*                                                                         *)
(* A JavaScript string is a sequence of one-character strings, so that the *)
(* routine's splitting, trimming and regular-expression scan are computed  *)
(* character by character.                                                 *)
(***************************************************************************)
EXTENDS Integers, Sequences, FiniteSets, TLC

\* ------------------------------------------------------------------ bounds
\* Largest number of rules held by all dynamic sheets together.
MaxRules == 2
\* Largest number of STYLE elements the routine is let to create.
MaxElements == 2
\* Largest number of times a text is handed through the routine's rewriting.
MaxPasses == 2
\* Largest number of px the font-size clicks are followed away from the
\* size the page starts with.
MaxClicks == 2

\* ------------------------------------------------------------------ inputs
\* Selector arguments: ':root'-like single token, a two-token selector in
\* the expected format, the same with a blank-and-tab run, and the single
\* token written with a leading blank.
Selectors ==
    { <<"r">>,
      <<"r", " ", "s">>,
      <<"r", " ", "\t", "s">>,
      <<" ", "r">> }

\* Declaration arguments.
Declarations ==
    { <<"a", ":", " ", "1", ";">>,                                  \* a: 1;
      <<"{", " ", "a", ":", " ", " ", "2", " ", "}">>,              \* { a:  2 }
      <<"a", ":", " ", "1", ";", " ", "b", ":", " ", "1", ";">>,    \* a: 1; b: 1;
      <<"b", ":", " ", "1", ";", "\t", "a", ":", " ", "1">>,        \* b: 1;<tab>a: 1
      <<"b", ":", "1", ";", " ", "a", ":", " ", "1", ";">>,         \* b:1; a: 1;
      <<"a", ":", " ", "1", ";", " ", "a", ":", " ", "2", ";">>,    \* a: 1; a: 2;
      <<"{", "a", ":", "2", ";", "}">> }                            \* {a:2;}

\* sheetIdName arguments: two names that are CSS identifiers, and with them
\* one legal HTML id that is not.
IdentifierNames == { <<"x">>, <<"y">> }
SheetIdNames == IdentifierNames \cup { <<"x", ".", "y">> }

\* Selectors handed to getNonce: the default, one that selects the first
\* STYLE element, one that selects nothing.
NonceSelectors == { "meta[name=web_author]", "style", "#missing" }

\* The page's nonce, as written to the data-nonce attribute.
PageNonce == "BZxPdf9p"
\* dataset.nonce / getAttribute of an attribute that is not there.
Undefined == "undefined"

\* ------------------------------------------------------- string primitives
\* The characters the /\s/ class and trim() remove, among those used here.
IsSpace(c) == c \in {" ", "\t"}

\* String.prototype.split(/\s+/): the pieces between the maximal runs of
\* white space; a leading or trailing run yields an empty first or last piece.
RECURSIVE SplitFrom(_, _, _, _)
SplitFrom(s, i, cur, inRun) ==
    IF i > Len(s) THEN << cur >>
    ELSE IF IsSpace(s[i])
         THEN IF inRun THEN SplitFrom(s, i + 1, cur, TRUE)
                       ELSE << cur >> \o SplitFrom(s, i + 1, << >>, TRUE)
         ELSE SplitFrom(s, i + 1, Append(cur, s[i]), FALSE)

split(s) == SplitFrom(s, 1, << >>, FALSE)

\* Array.prototype.join(' ')
RECURSIVE join(_)
join(pieces) ==
    IF Len(pieces) = 0 THEN << >>
    ELSE IF Len(pieces) = 1 THEN pieces[1]
    ELSE pieces[1] \o << " " >> \o join(Tail(pieces))

\* String.prototype.trim()
RECURSIVE trimStart(_)
trimStart(s) ==
    IF Len(s) > 0 /\ IsSpace(s[1]) THEN trimStart(Tail(s)) ELSE s

RECURSIVE trimEnd(_)
trimEnd(s) ==
    IF Len(s) > 0 /\ IsSpace(s[Len(s)]) THEN trimEnd(SubSeq(s, 1, Len(s) - 1)) ELSE s

trim(s) == trimEnd(trimStart(s))

\* declarations.replace(/[{}]/g, '')
IsBrace(c) == c \in {"{", "}"}
replaceBraces(s) == SelectSeq(s, LAMBDA c : ~IsBrace(c))

\* ----------------------------------------------- the routine's normalising
\* selector = selector.split(/\s+/).join(' ')
normalizeSelector(selector) == join(split(selector))

\* lacksSemicolon answering that the semicolon is there, whatever the text.
lacksSemicolonNever(d) == FALSE

\* declarations.substr(declarations.length - 1, 1) !== ';'
lacksSemicolon(d) == Len(d) = 0 \/ d[Len(d)] # ";"

\* normalizeDeclarations without the trim() call.
normalizeDeclarationsWithoutTrim(declarations) ==
    LET stripped == replaceBraces(declarations)
        ended    == IF lacksSemicolon(stripped) THEN stripped \o << ";" >> ELSE stripped
    IN  << "{", " " >> \o join(split(ended)) \o << " ", "}" >>

\* The three statements that rebuild the declarations argument.
normalizeDeclarations(declarations) ==
    LET stripped == trim(replaceBraces(declarations))
        ended    == IF lacksSemicolon(stripped) THEN stripped \o << ";" >> ELSE stripped
    IN  << "{", " " >> \o join(split(ended)) \o << " ", "}" >>

\* rule = selector + ' ' + declarations
ruleText(selector, declarations) == selector \o << " " >> \o declarations

\* The end of the run of non-white-space characters that holds position i.
RECURSIVE runEnd(_, _)
runEnd(s, i) ==
    IF i < Len(s) /\ ~IsSpace(s[i + 1]) THEN runEnd(s, i + 1) ELSE i

\* The exec loop over /(\S+):(?!\S+)/g.  From a non-space position i the
\* greedy \S+ takes the whole run up to e and backs off until a colon
\* follows; the look-ahead then wants white space or the end after that
\* colon, which only the run's last character can offer.  A match therefore
\* captures s[i..e-1] when s[e] is a colon and e > i, and lastIndex moves
\* past e either way (no later start inside the run can match if i cannot,
\* except none is left when e = i).
RECURSIVE execAll(_, _)
execAll(s, i) ==
    IF i > Len(s) THEN << >>
    ELSE IF IsSpace(s[i]) THEN execAll(s, i + 1)
    ELSE LET e == runEnd(s, i)
         IN  IF s[e] = ":" /\ e > i
             THEN << SubSeq(s, i, e - 1) >> \o execAll(s, e + 1)
             ELSE execAll(s, e + 1)

\* propertiesArray as filled by the while loop.
propertiesArrayOf(declarations) == execAll(declarations, 1)

\* ------------------------------------------- the style sheet object model
\* What the platform answers to the calls the routine makes on a sheet:
\* insertRule parses the rule text, selectorText and style[index] read the
\* parsed rule back.  Selectors are compound selectors joined by descendant
\* combinators; property names are longhand or custom names the platform
\* accepts; values are kept as written.

\* selectorText: the compound selectors, one blank between them.
selectorTextOf(selector) ==
    join(SelectSeq(split(selector), LAMBDA piece : Len(piece) > 0))

\* The pieces of s between the occurrences of the character ch.
RECURSIVE piecesFrom(_, _, _, _)
piecesFrom(s, ch, i, cur) ==
    IF i > Len(s) THEN << cur >>
    ELSE IF s[i] = ch THEN << cur >> \o piecesFrom(s, ch, i + 1, << >>)
    ELSE piecesFrom(s, ch, i + 1, Append(cur, s[i]))

\* The position of the first colon of s, 0 when it has none.
RECURSIVE colonFrom(_, _)
colonFrom(s, i) ==
    IF i > Len(s) THEN 0 ELSE IF s[i] = ":" THEN i ELSE colonFrom(s, i + 1)

\* One 'name: value' piece as the platform reads it: the name before the
\* first colon and the value after it, white space around both dropped.
declarationOf(piece) ==
    LET c == colonFrom(piece, 1)
    IN  [ name  |-> IF c = 0 THEN << >> ELSE trim(SubSeq(piece, 1, c - 1)),
          value |-> IF c = 0 THEN << >> ELSE trim(SubSeq(piece, c + 1, Len(piece))) ]

\* A piece that is no declaration is dropped by the platform.
isDeclaration(d) ==
    /\ Len(d.name) > 0
    /\ Len(d.value) > 0
    /\ \A k \in 1..Len(d.name) : ~IsSpace(d.name[k])

\* A later declaration of a property replaces the earlier one and takes the
\* last place.
setDeclaration(style, d) ==
    Append(SelectSeq(style, LAMBDA old : old.name # d.name), d)

RECURSIVE declareAll(_, _)
declareAll(style, ds) ==
    IF Len(ds) = 0 THEN style
    ELSE declareAll(
             IF isDeclaration(ds[1]) THEN setDeclaration(style, ds[1]) ELSE style,
             Tail(ds))

\* The declarations written in a block, in the order written, repeats kept.
writtenDeclarations(declarations) ==
    LET pieces == piecesFrom(replaceBraces(declarations), ";", 1, << >>)
    IN  SelectSeq([ k \in 1..Len(pieces) |-> declarationOf(pieces[k]) ], isDeclaration)

\* The style object of the rule made from a block.
styleOf(declarations) == declareAll(<< >>, writtenDeclarations(declarations))

\* The CSSStyleRule that insertRule(selector + ' ' + declarations) adds.
parseRule(selector, declarations) ==
    [ selectorText |-> selectorTextOf(selector), style |-> styleOf(declarations) ]

\* style[0], style[1], ...: the names of the declared properties.
styleNames(style) == [ k \in 1..Len(style) |-> style[k].name ]

\* cssText of a rule: 'sel { name: value; name: value; }'.
RECURSIVE styleText(_)
styleText(style) ==
    IF Len(style) = 0 THEN << >>
    ELSE style[1].name \o << ":", " " >> \o style[1].value \o << ";", " " >>
         \o styleText(Tail(style))

cssText(rule) ==
    rule.selectorText \o << " ", "{", " " >> \o styleText(rule.style) \o << "}" >>

\* sheet.deleteRule(position)
deleteRule(cssRules, position) ==
    SubSeq(cssRules, 1, position - 1) \o SubSeq(cssRules, position + 1, Len(cssRules))

\* sheet.insertRule(rule, index), rule as the platform parsed it.
insertRule(cssRules, cssRule, index) ==
    SubSeq(cssRules, 1, index) \o << cssRule >> \o SubSeq(cssRules, index + 1, Len(cssRules))

\* ------------------------------------------------------ helper functions
lastCssRuleIndex(cssRules) == Len(cssRules)

\* sameArrayContents without the every(...) part.
sameArrayLengths(array1, array2) == Len(array1) = Len(array2)

sameArrayContents(array1, array2) ==
    /\ Len(array1) = Len(array2)
    /\ \A index \in 1..Len(array1) : array1[index] = array2[index]

\* sheetPropertiesArray: the numeric keys of the rule's style object.
sheetPropertiesArrayOf(cssRule) == styleNames(cssRule.style)

\* scanSheet with selectorExists set by the selector text alone.
RECURSIVE scanSelectorFirstFrom(_, _, _, _, _)
scanSelectorFirstFrom(cssRules, selector, propertiesArray, key, found) ==
    IF key > Len(cssRules) THEN found
    ELSE scanSelectorFirstFrom(cssRules, selector, propertiesArray, key + 1,
             IF cssRules[key].selectorText = selector
             THEN IF sameArrayContents(propertiesArray, sheetPropertiesArrayOf(cssRules[key]))
                  THEN [ selectorExists |-> TRUE, propertiesMatch |-> TRUE, position |-> key ]
                  ELSE [ found EXCEPT !.selectorExists = TRUE ]
             ELSE found)

scanSheetSelectorFirst(cssRules, selector, propertiesArray) ==
    scanSelectorFirstFrom(cssRules, selector, propertiesArray, 1,
             [ selectorExists |-> FALSE, propertiesMatch |-> FALSE, position |-> 0 ])

\* The forEach over the keys of cssRules: every key whose rule has the
\* selector text and the properties array of the candidate sets both flags
\* and overwrites position, so the last such key is the one kept.
RECURSIVE scanFrom(_, _, _, _, _)
scanFrom(cssRules, selector, propertiesArray, key, found) ==
    IF key > Len(cssRules) THEN found
    ELSE scanFrom(cssRules, selector, propertiesArray, key + 1,
             IF /\ cssRules[key].selectorText = selector
                /\ sameArrayContents(propertiesArray, sheetPropertiesArrayOf(cssRules[key]))
             THEN [ selectorExists |-> TRUE, propertiesMatch |-> TRUE, position |-> key ]
             ELSE found)

scanSheet(cssRules, selector, propertiesArray) ==
    scanFrom(cssRules, selector, propertiesArray, 1,
             [ selectorExists |-> FALSE, propertiesMatch |-> FALSE, position |-> 0 ])

\* applyPolicy without the deleteRule call.
applyPolicyKeepingOld(cssRules, found, rule) ==
    insertRule(cssRules, rule, lastCssRuleIndex(cssRules))

\* The closing if / else of the routine.
applyPolicy(cssRules, found, rule) ==
    IF found.selectorExists
    THEN IF found.propertiesMatch
         THEN LET deleted == deleteRule(cssRules, found.position)
              IN  insertRule(deleted, rule, lastCssRuleIndex(deleted))
         ELSE cssRules
    ELSE insertRule(cssRules, rule, lastCssRuleIndex(cssRules))

\* ---------------------------------------------------------------- document
\* newStyleElement without the setAttribute('nonce', nonce) call.
newStyleElementWithoutNonce(sheetIdName, nonceValue) ==
    [ id |-> sheetIdName, nonce |-> Undefined, cssRules |-> << >> ]

\* The STYLE element built when the lookup finds none.
newStyleElement(sheetIdName, nonceValue) ==
    [ id       |-> sheetIdName,
      nonce    |-> IF nonceValue # Undefined THEN nonceValue ELSE Undefined,
      cssRules |-> << >> ]

\* document.querySelector('#' + sheetIdName): the text after '#' is read as
\* a compound selector, so a '.' in it starts a class selector; the elements
\* of this document carry no class.  0 when nothing is selected.
selectsById(element, sheetIdName) ==
    /\ \A k \in 1..Len(sheetIdName) : sheetIdName[k] # "."
    /\ element.id = sheetIdName

querySelectorId(elements, sheetIdName) ==
    IF \E k \in 1..Len(elements) : selectsById(elements[k], sheetIdName)
    THEN CHOOSE k \in 1..Len(elements) :
             /\ selectsById(elements[k], sheetIdName)
             /\ \A j \in 1..(k - 1) : ~selectsById(elements[j], sheetIdName)
    ELSE 0

\* ensureElements with the nonce attribute set outside the creation block,
\* on the element the lookup found as well.
ensureElementsNonceEveryCall(elements, sheetIdName, nonceValue) ==
    LET k == querySelectorId(elements, sheetIdName)
    IN  IF k = 0
        THEN Append(elements, [ id       |-> sheetIdName,
                                nonce    |-> nonceValue,
                                cssRules |-> << >> ])
        ELSE [ elements EXCEPT ![k].nonce = nonceValue ]

\* The first block of the routine: the list of STYLE elements afterwards.
ensureElements(elements, sheetIdName, nonceValue) ==
    IF querySelectorId(elements, sheetIdName) = 0
    THEN Append(elements, newStyleElement(sheetIdName, nonceValue))
    ELSE elements

\* ... and the sheet the module variable refers to afterwards.
ensureSheet(elements, sheet, sheetIdName) ==
    IF querySelectorId(elements, sheetIdName) = 0 THEN Len(elements) + 1 ELSE sheet

\* ------------------------------------------------------------------- state
VARIABLES
    metaDataNonce,      \* data-nonce of the META element (Undefined: no attribute)
    nonce,              \* the module variable nonce
    styleElements,      \* the STYLE elements of the head, in document order
    dynamicStyleSheet,  \* the module variable: index of the element whose sheet it is, 0 before
    position,           \* the local of the last appendToCSS: the key it deleted at, 0 if none
    selected,           \* the local elementWithDataNonce of the last getNonce, Undefined before
    arguments,          \* the selector and declarations texts handed to the routine
    rewritten,          \* what the routine's straight-line part made of them
    passes,             \* how many times the texts went through that part
    h3FontSize,         \* site.module.js: the module variable h3FontSize
    colorSelectorValue, \* site.module.js: the value of #background-color-selector
    cssRulesDisplay     \* site.module.js: the lines written to #css-rules-display

vars == << metaDataNonce, nonce, styleElements, dynamicStyleSheet, position, selected,
           arguments, rewritten, passes, h3FontSize, colorSelectorValue, cssRulesDisplay >>

\* The variables of the routine's texts and of the demonstration page.
textVars == << arguments, rewritten, passes >>
siteVars == << h3FontSize, colorSelectorValue, cssRulesDisplay >>

RECURSIVE countRules(_)
countRules(elements) ==
    IF Len(elements) = 0 THEN 0
    ELSE Len(elements[1].cssRules) + countRules(Tail(elements))

\* No texts under study, and what the routine makes of none.
NoArguments == [ selector |-> << >>, declarations |-> << >> ]
NoCandidate ==
    [ selector        |-> << >>,
      declarations    |-> << >>,
      propertiesArray |-> << >>,
      rule            |-> [ selectorText |-> << >>, style |-> << >> ] ]

Init ==
    /\ metaDataNonce \in { Undefined, "", PageNonce }
    /\ nonce = Undefined
    /\ styleElements = << >>
    /\ dynamicStyleSheet = 0
    /\ position = 0
    /\ selected = Undefined
    /\ arguments = NoArguments
    /\ rewritten = NoCandidate
    /\ passes = 0
    /\ h3FontSize = 0
    /\ colorSelectorValue = << >>
    /\ cssRulesDisplay = << >>

\* The routine's straight-line part, from the rewriting of the arguments to
\* the filling of propertiesArray: the selector and the declarations as
\* rewritten, the names found in the declarations, and the rule the platform
\* makes of the text selector + ' ' + declarations.
candidateOf(selector, declarations) ==
    LET sel  == normalizeSelector(selector)
        decl == normalizeDeclarations(declarations)
    IN  [ selector        |-> sel,
          declarations    |-> decl,
          propertiesArray |-> propertiesArrayOf(decl),
          rule            |-> parseRule(sel, decl) ]

\* ------------------------------------------- the demonstration page's calls
\* site.module.js calls the routine with ':root', with the default
\* sheetIdName and with declarations built from the value of the colour
\* input and from h3FontSize.
SiteSelector == <<":", "r", "o", "o", "t">>
DefaultSheetIdName ==
    <<"d", "y", "n", "a", "m", "i", "c", "-", "s", "t", "y", "l", "e", "-", "e", "l", "e", "m", "e", "n", "t">>

\* Values of the colour input.
ColorValues ==
    { <<"#", "f", "f", "0", "0", "0", "0">>,
      <<"#", "0", "0", "0", "0", "f", "f">> }

\* parseFloat of the computed font-size of the h3 (whole px), and the sizes
\* within MaxClicks clicks of them.
InitialFontSizes == { 1, 10 }
FontSizes == { size + d : size \in InitialFontSizes, d \in (0 - MaxClicks)..MaxClicks }

\* Number to string, as in h3FontSize + 'px', of a whole number.
Digits == << "0", "1", "2", "3", "4", "5", "6", "7", "8", "9" >>

RECURSIVE digitsOf(_)
digitsOf(n) ==
    IF n < 10 THEN << Digits[n + 1] >>
    ELSE Append(digitsOf(n \div 10), Digits[(n % 10) + 1])

numberToString(n) == IF n < 0 THEN << "-" >> \o digitsOf(0 - n) ELSE digitsOf(n)

\* '{ --background-color: ' + event.target.value + '; }'
backgroundColorDeclarations(value) ==
    <<"{", " ", "-", "-", "b", "a", "c", "k", "g", "r", "o", "u", "n", "d", "-", "c", "o", "l", "o", "r", ":", " ">>
        \o value \o << ";", " ", "}" >>

\* '{ --font-size: ' + h3FontSize + 'px; }'
fontSizeDeclarations(size) ==
    <<"{", " ", "-", "-", "f", "o", "n", "t", "-", "s", "i", "z", "e", ":", " ">>
        \o numberToString(size) \o << "p", "x", ";", " ", "}" >>

SiteDeclarations ==
    { backgroundColorDeclarations(value) : value \in ColorValues }
        \cup { fontSizeDeclarations(size) : size \in FontSizes }

\* candidateOf, tabulated over the argument values.
candidateTable ==
    [ selector \in Selectors \cup { SiteSelector } |->
        [ declarations \in Declarations \cup SiteDeclarations |->
            candidateOf(selector, declarations) ] ]

appendToCSS(selector, declarations, sheetIdName) ==
    \E elements \in { ensureElements(styleElements, sheetIdName, nonce) },
       sheet \in { ensureSheet(styleElements, dynamicStyleSheet, sheetIdName) },
       candidate \in { candidateTable[selector][declarations] } :
    \E found \in { scanSheet(elements[sheet].cssRules, candidate.selector,
                             candidate.propertiesArray) } :
    \E cssRules \in { applyPolicy(elements[sheet].cssRules, found, candidate.rule) } :
    \E after \in { [ elements EXCEPT ![sheet].cssRules = cssRules ] } :
        /\ styleElements' = after
        /\ dynamicStyleSheet' = sheet
        /\ position' = found.position
        /\ UNCHANGED << metaDataNonce, nonce, selected >>

\* The calls followed here: those that leave the document within the bounds.
withinBounds ==
    /\ Len(styleElements') <= MaxElements
    /\ countRules(styleElements') <= MaxRules

\* document.querySelector(selector) in getNonce: which element is looked at.
elementWithDataNonce(selector) ==
    IF selector = "meta[name=web_author]" THEN "meta"
    ELSE IF selector = "style" /\ Len(styleElements) > 0 THEN "style"
    ELSE "null"

\* elementWithDataNonce.dataset.nonce (a STYLE element has no data-nonce).
datasetNonce(element) == IF element = "meta" THEN metaDataNonce ELSE Undefined

\* hasDataNonce without the Boolean(...dataset.nonce) test.
hasElement(element) == element # "null"

\* elementWithDataNonce && Boolean(elementWithDataNonce.dataset.nonce)
hasDataNonce(element) ==
    /\ element # "null"
    /\ datasetNonce(element) \notin { Undefined, "" }

\* getNonce without the delete statement.
keptDataNonce(value) == value

\* What delete elementWithDataNonce.dataset.nonce leaves of the attribute.
deletedDataNonce(value) == Undefined

getNonce(selector) ==
    LET element == elementWithDataNonce(selector)
    IN  /\ IF hasDataNonce(element)
           THEN /\ nonce' = datasetNonce(element)
                /\ metaDataNonce' = deletedDataNonce(metaDataNonce)
           ELSE UNCHANGED << metaDataNonce, nonce >>
        /\ selected' = element
        /\ UNCHANGED << styleElements, dynamicStyleSheet, position >>

\* The page as a whole.
Next ==
    \/ \E selector \in Selectors, declarations \in Declarations, sheetIdName \in SheetIdNames :
           /\ appendToCSS(selector, declarations, sheetIdName)
           /\ withinBounds
           /\ UNCHANGED << textVars, siteVars >>
    \/ \E selector \in NonceSelectors :
           /\ getNonce(selector)
           /\ UNCHANGED << textVars, siteVars >>

Spec == Init /\ [][Next]_vars

\* The sheet under every selector and declaration block, written through
\* the identifier names.
NextSheet ==
    \E selector \in Selectors, declarations \in Declarations, sheetIdName \in IdentifierNames :
        /\ appendToCSS(selector, declarations, sheetIdName)
        /\ withinBounds
        /\ UNCHANGED << textVars, siteVars >>

\* The page that carries the nonce on its META element, getNonce not called.
InitSheet == Init /\ metaDataNonce = PageNonce

SpecSheet == InitSheet /\ [][NextSheet]_vars

\* The document under every sheetIdName and every getNonce call, two
\* declaration blocks being written for one selector.
DocumentSelector == <<"r">>
DocumentDeclarations ==
    { <<"a", ":", " ", "1", ";">>,
      <<"a", ":", " ", "1", ";", " ", "b", ":", " ", "1", ";">> }

NextDocument ==
    \/ \E declarations \in DocumentDeclarations, sheetIdName \in SheetIdNames :
           /\ appendToCSS(DocumentSelector, declarations, sheetIdName)
           /\ withinBounds
           /\ UNCHANGED << textVars, siteVars >>
    \/ \E selector \in NonceSelectors :
           /\ getNonce(selector)
           /\ UNCHANGED << textVars, siteVars >>

SpecDocument == Init /\ [][NextDocument]_vars

\* The routine's rewriting of its arguments, taken by itself.  Selector
\* texts: tokens a and b with one blank, with leading and repeated blanks,
\* with a tab, with a trailing blank; one token; the empty text; one blank.
TextSelectors ==
    { <<"a", " ", "b">>,
      <<" ", " ", "a", " ", " ", " ", "b">>,
      <<"a", "\t", "b">>,
      <<"a", " ", "b", " ">>,
      <<"a">>,
      << >>,
      <<" ">> }

\* Declaration texts: with and without braces, the closing semicolon and
\* blanks; the empty text and one tab; a value with a colon before a
\* non-blank (as in a URL) and a quoted value with a colon before a blank.
TextDeclarations ==
    { << >>,
      <<"\t">>,
      <<"a", ":", " ", "1">>,                                           \* a: 1
      <<"a", ":", " ", "1", ";">>,                                      \* a: 1;
      <<"{", " ", "a", ":", " ", "1", ";", " ", "}">>,                  \* { a: 1; }
      <<"{", "a", ":", "1", ";", "}">>,                                 \* {a:1;}
      <<"a", ":", "1", ";", "\t", "b", ":", " ", "2">>,                 \* a:1;<tab>b: 2
      <<" ", "{", "a", ":", " ", " ", "1", ";", " ", " ", "b", ":", " ", "2", " ", "}", " ">>,
                                                                        \* ' {a:  1;  b: 2 } '
      <<"a", ":", " ", "u", ":", "/", "x", ";", " ", "b", ":", " ", "2", ";">>,
                                                                        \* a: u:/x; b: 2;
      <<"c", ":", " ", "\"", "n", ":", " ", "\"", ";">> }              \* c: "n: ";

InitText ==
    /\ arguments \in [ selector : TextSelectors, declarations : TextDeclarations ]
    /\ rewritten = NoCandidate
    /\ passes = 0
    /\ metaDataNonce = PageNonce
    /\ nonce = Undefined
    /\ styleElements = << >>
    /\ dynamicStyleSheet = 0
    /\ position = 0
    /\ selected = Undefined
    /\ h3FontSize = 0
    /\ colorSelectorValue = << >>
    /\ cssRulesDisplay = << >>

\* The statements of appendToCSS from the rewriting of selector to the
\* filling of propertiesArray, on the texts as given and then on the texts
\* they were rewritten to (a caller handing the rewritten texts back).
rewriteArguments ==
    /\ passes < MaxPasses
    /\ \E given \in { IF passes = 0
                      THEN arguments
                      ELSE [ selector     |-> rewritten.selector,
                             declarations |-> rewritten.declarations ] } :
           /\ arguments' = given
           /\ rewritten' = candidateOf(given.selector, given.declarations)
    /\ passes' = passes + 1
    /\ UNCHANGED << metaDataNonce, nonce, styleElements, dynamicStyleSheet, position,
                    selected, siteVars >>

NextText == rewriteArguments

SpecText == InitText /\ [][NextText]_vars

\* The demonstration page.  logStyleSheets: the cssText of every rule of
\* every STYLE element, one line each, filled up to five lines.
RECURSIVE ruleLines(_)
ruleLines(elements) ==
    IF Len(elements) = 0 THEN << >>
    ELSE [ key \in 1..Len(elements[1].cssRules) |-> cssText(elements[1].cssRules[key]) ]
         \o ruleLines(Tail(elements))

RECURSIVE padded(_)
padded(lines) == IF Len(lines) <= 4 THEN padded(Append(lines, << >>)) ELSE lines

logStyleSheets(elements) == padded(ruleLines(elements))

\* The page once site.module.js has run: o.getNonce() has taken the token
\* from the META element if it carried one, h3FontSize is read, the colour
\* input has a value and the display has been written for the first time.
InitSite ==
    /\ \E served \in { Undefined, "", PageNonce } :
           /\ nonce = ( IF served \in { Undefined, "" } THEN Undefined ELSE served )
           /\ metaDataNonce = ( IF served \in { Undefined, "" } THEN served ELSE Undefined )
    /\ selected = "meta"
    /\ styleElements = << >>
    /\ dynamicStyleSheet = 0
    /\ position = 0
    /\ arguments = NoArguments
    /\ rewritten = NoCandidate
    /\ passes = 0
    /\ h3FontSize \in InitialFontSizes
    /\ colorSelectorValue \in ColorValues
    /\ cssRulesDisplay = logStyleSheets(<< >>)

\* The 'input' listener of #background-color-selector.
backgroundColorInput(value) ==
    /\ colorSelectorValue' = value
    /\ appendToCSS(SiteSelector, backgroundColorDeclarations(colorSelectorValue'),
                   DefaultSheetIdName)
    /\ cssRulesDisplay' = logStyleSheets(styleElements')
    /\ UNCHANGED << h3FontSize, textVars >>

\* The 'click' listener of #plus-1px.
plus1px ==
    /\ h3FontSize + 1 \in FontSizes
    /\ h3FontSize' = h3FontSize + 1
    /\ appendToCSS(SiteSelector, fontSizeDeclarations(h3FontSize'), DefaultSheetIdName)
    /\ cssRulesDisplay' = logStyleSheets(styleElements')
    /\ UNCHANGED << colorSelectorValue, textVars >>

\* The 'click' listener of #minus-1px.
minus1px ==
    /\ h3FontSize - 1 \in FontSizes
    /\ h3FontSize' = h3FontSize - 1
    /\ appendToCSS(SiteSelector, fontSizeDeclarations(h3FontSize'), DefaultSheetIdName)
    /\ cssRulesDisplay' = logStyleSheets(styleElements')
    /\ UNCHANGED << colorSelectorValue, textVars >>

NextSite ==
    \/ \E value \in ColorValues : backgroundColorInput(value)
    \/ plus1px
    \/ minus1px

SpecSite == InitSite /\ [][NextSite]_vars

\* ============================================================== properties
\* The properties of the sheet are stated of the steps of SpecSheet, the
\* properties of the elements and the nonce of the states and steps of
\* SpecDocument, the properties of the rewritten texts of the states of
\* SpecText and the property of the demonstration page of the steps of
\* SpecSite.
\* The rule list of the sheet the module variable refers to.
managedRules ==
    IF dynamicStyleSheet = 0 THEN << >> ELSE styleElements[dynamicStyleSheet].cssRules

\* Across a step of appendToCSS: the rule list the call found in the sheet it
\* wrote to (empty when the call made the sheet), and the list it left.
rulesBefore == IF dynamicStyleSheet' = dynamicStyleSheet THEN managedRules ELSE << >>
rulesAfter == styleElements'[dynamicStyleSheet'].cssRules

\* A list without its k-th member.
without(seq, k) == SubSeq(seq, 1, k - 1) \o SubSeq(seq, k + 1, Len(seq))

\* The property names of a style object, as a set.
nameSet(style) == { style[k].name : k \in 1..Len(style) }

\* The property names written in a block, in order with repeats, and as a set.
writtenNames(declarations) == styleNames(writtenDeclarations(declarations))
writtenNameSet(declarations) == nameSet(writtenDeclarations(declarations))

\* The text the routine hands to insertRule.
candidateText(candidate) == ruleText(candidate.selector, candidate.declarations)

\* The new rule differs from the sheet's rule old in the values of its
\* declarations only: its text is the text of a rule with the selector text
\* of old and the property names of old, in the order of old.
onlyValuesDiffer(candidate, old) ==
    /\ candidateText(candidate) = cssText(candidate.rule)
    /\ old.selectorText = candidate.rule.selectorText
    /\ styleNames(old.style) = styleNames(candidate.rule.style)

\* The block is written in the expected format: the names the routine finds
\* in it are the names written in it.
expectedFormat(candidate) ==
    /\ candidate.selector = candidate.rule.selectorText
    /\ candidate.propertiesArray = writtenNames(candidate.declarations)

C2_AppendOnDifferentProperties ==
    [][ \A selector \in Selectors, declarations \in Declarations, sheetIdName \in IdentifierNames :
          LET candidate == candidateTable[selector][declarations]
          IN  ( /\ \E k \in 1..Len(rulesBefore) :
                       rulesBefore[k].selectorText = candidate.selector
                /\ \A k \in 1..Len(rulesBefore) :
                       rulesBefore[k].selectorText = candidate.selector
                           => nameSet(rulesBefore[k].style) # writtenNameSet(candidate.declarations)
                /\ appendToCSS(selector, declarations, sheetIdName) )
              => rulesAfter = Append(rulesBefore, candidate.rule)
      ]_vars

\* C3: the match test is set equality of property names: a block in the
\* expected format that lists the names of a rule of the same selector in
\* another order, or repeats one, replaces that rule (one rule is deleted,
\* the number of rules is unchanged).
C3_MatchIsSetEquality ==
    [][ \A selector \in Selectors, declarations \in Declarations, sheetIdName \in IdentifierNames :
          LET candidate == candidateTable[selector][declarations]
          IN  ( /\ expectedFormat(candidate)
                /\ \E k \in 1..Len(rulesBefore) :
                       /\ rulesBefore[k].selectorText = candidate.selector
                       /\ nameSet(rulesBefore[k].style) = writtenNameSet(candidate.declarations)
                /\ appendToCSS(selector, declarations, sheetIdName) )
              => Len(rulesAfter) = Len(rulesBefore)
      ]_vars

\* C4: no sheet ever holds two rules that are the same logical rule, that is
\* two rules with equal selector text and equal property-name set.
C4_NoDuplicateLogicalRule ==
    \A e \in 1..Len(styleElements) :
        \A i, j \in 1..Len(styleElements[e].cssRules) :
            LET rules == styleElements[e].cssRules
            IN  ( /\ i < j
                  /\ rules[i].selectorText = rules[j].selectorText )
                => nameSet(rules[i].style) # nameSet(rules[j].style)

\* C5: a call that follows a call with the same selector and the same
\* property-name set (whose rule is the last of the sheet), both in the
\* expected format, leaves its own rule in the last place and the earlier
\* call's rule nowhere: the sheet is the earlier sheet with its last rule
\* exchanged for the new one.
C5_OnlyMostRecentRemains ==
    [][ \A selector \in Selectors, declarations \in Declarations, sheetIdName \in IdentifierNames :
          LET candidate == candidateTable[selector][declarations]
              n == Len(rulesBefore)
          IN  ( /\ expectedFormat(candidate)
                /\ n > 0
                /\ rulesBefore[n].selectorText = candidate.selector
                /\ nameSet(rulesBefore[n].style) = writtenNameSet(candidate.declarations)
                /\ appendToCSS(selector, declarations, sheetIdName) )
              => rulesAfter = Append(without(rulesBefore, n), candidate.rule)
      ]_vars

\* What C6 says of every step of appendToCSS, but for the rule deleted: the
\* candidate rule is the last rule of the sheet written to, that sheet holds
\* as many rules as before or one more, and the document has lost no rule on
\* balance.
insertsCandidate(candidate) ==
    /\ Len(rulesAfter) > 0
    /\ rulesAfter[Len(rulesAfter)] = candidate.rule
    /\ Len(rulesAfter) \in { Len(rulesBefore), Len(rulesBefore) + 1 }
    /\ countRules(styleElements') >= countRules(styleElements)

\* The rule text of the call is the text of a rule of the sheet.
textInSheet(candidate) ==
    \E k \in 1..Len(rulesBefore) : cssText(rulesBefore[k]) = candidateText(candidate)

C7_OneElementPerIdentifier ==
    \A i, j \in 1..Len(styleElements) :
        i < j => styleElements[i].id # styleElements[j].id

\* C8: a getNonce call whose element carries a non-empty data-nonce token
\* leaves the element without the attribute and the token in the module
\* variable, where it stays; every STYLE element created while the module
\* variable holds the token carries it as its nonce attribute.
C8_CaptureAndErase ==
    [][ /\ \A selector \in NonceSelectors :
              ( /\ elementWithDataNonce(selector) = "meta"
                /\ metaDataNonce \notin { Undefined, "" }
                /\ getNonce(selector) )
              => /\ metaDataNonce' = Undefined
                 /\ nonce' = metaDataNonce
        /\ nonce # Undefined
              => /\ nonce' = nonce
                 /\ \A k \in (Len(styleElements) + 1)..Len(styleElements') :
                        styleElements'[k].nonce = nonce
      ]_vars

\* C8 witness: the token has been captured and erased, and a STYLE element
\* created afterwards carries it.
C8_Witness ==
    /\ metaDataNonce = Undefined
    /\ nonce = PageNonce
    /\ \E k \in 1..Len(styleElements) : styleElements[k].nonce = PageNonce

\* C9 as stated: once the token is captured it appears in no attribute of
\* any element of the document.
C9_TokenInNoAttribute ==
    nonce # Undefined
        => /\ metaDataNonce # nonce
           /\ \A k \in 1..Len(styleElements) : styleElements[k].nonce # nonce

\* C9 as amended: once the token is captured the data-nonce attribute it was
\* read from is absent, and the only attributes that hold the token are the
\* nonce attributes of STYLE elements, which hold nothing but the captured
\* token.
C9_TokenDetachedFromSource ==
    /\ nonce # Undefined => metaDataNonce = Undefined
    /\ \A k \in 1..Len(styleElements) :
           styleElements[k].nonce # Undefined => styleElements[k].nonce = nonce

\* C9 witness: after the capture, with a STYLE element in the document.
C9_Witness ==
    /\ nonce = PageNonce
    /\ metaDataNonce = Undefined
    /\ Len(styleElements) > 0

\* C10: the nonce attribute of a STYLE element is fixed when the element is
\* created: no step changes the id or the nonce attribute of an element that
\* exists, and a new element carries the token exactly if the module
\* variable held it before the call that creates the element.
C10_NonceFixedAtCreation ==
    [][ /\ Len(styleElements') >= Len(styleElements)
        /\ \A k \in 1..Len(styleElements) :
               /\ styleElements'[k].id = styleElements[k].id
               /\ styleElements'[k].nonce = styleElements[k].nonce
        /\ \A k \in (Len(styleElements) + 1)..Len(styleElements') :
               styleElements'[k].nonce = nonce
      ]_vars

\* C10 witness: an element created before the capture is without the nonce
\* attribute after the capture and after the creation of an element that has it.
C10_Witness ==
    /\ nonce = PageNonce
    /\ \E i, j \in 1..Len(styleElements) :
           /\ i < j
           /\ styleElements[i].nonce = Undefined
           /\ styleElements[j].nonce = PageNonce

\* C11: the rewriting of the selector and of the declarations is idempotent:
\* texts that came out of the rewriting come out of it again unchanged.
C11_RewritingIdempotent ==
    passes >= 2
        => /\ rewritten.selector = arguments.selector
           /\ rewritten.declarations = arguments.declarations

\* C11 witness: ' {a:  1;  b: 2 } ' and '  a   b', both changed by the first
\* pass, have gone through the second.
C11_Witness ==
    /\ passes = 2
    /\ rewritten.selector = <<" ", "a", " ", "b">>
    /\ rewritten.declarations
           = <<"{", " ", "a", ":", " ", "1", ";", " ", "b", ":", " ", "2", ";", " ", "}">>

\* The tokens of a text, one blank between them, none before or behind.
singleSpaced(text) ==
    join(SelectSeq(split(text), LAMBDA piece : Len(piece) > 0))

\* C12: the rewritten selector is the single-spaced form of the selector
\* given, without a leading blank ('  a   b' gives 'a b', as 'a b' does), so
\* that selectors of the same tokens are rewritten to the same text.
C12_SameTokensSameText ==
    passes >= 1 => rewritten.selector = singleSpaced(arguments.selector)

\* The text of a block between its first two and its last two characters.
blockBody(block) == SubSeq(block, 3, Len(block) - 2)

\* C13: whatever declarations text is given, the rewritten block is
\* '{ ' + body + ' }', where body begins with no blank, holds no brace and no
\* two white-space characters in a row, and ends with a semicolon.
C13_DeclarationBlockForm ==
    passes >= 1
        => LET block == rewritten.declarations
               body  == blockBody(block)
           IN  /\ Len(block) >= 5
               /\ block[1] = "{"
               /\ block[2] = " "
               /\ block[Len(block) - 1] = " "
               /\ block[Len(block)] = "}"
               /\ ~IsSpace(body[1])
               /\ body[Len(body)] = ";"
               /\ \A k \in 1..Len(body) : ~IsBrace(body[k])
               /\ \A k \in 1..(Len(body) - 1) : ~(IsSpace(body[k]) /\ IsSpace(body[k + 1]))

\* C13 witness: ' {a:  1;  b: 2 } ', with braces, runs of blanks and no
\* closing semicolon, has been rewritten to '{ a: 1; b: 2; }'.
C13_Witness ==
    /\ passes = 1
    /\ arguments.declarations
           = <<" ", "{", "a", ":", " ", " ", "1", ";", " ", " ", "b", ":", " ", "2", " ", "}", " ">>
    /\ rewritten.declarations
           = <<"{", " ", "a", ":", " ", "1", ";", " ", "b", ":", " ", "2", ";", " ", "}">>

\* The declarations written in a block, written in the expected format:
\* '{ name: value; name: value; }'.
expectedBlock(declarations) ==
    << "{", " " >> \o styleText(writtenDeclarations(declarations)) \o << "}" >>

\* What the routine makes of each block once it is written so, tabulated.
expectedTable ==
    [ selector \in Selectors |->
        [ declarations \in Declarations |->
            candidateOf(selector, expectedBlock(declarations)) ] ]

\* C14: the routine corrects the format of the declarations: a call decides
\* and leaves the sheet as the call with the same block in the expected
\* format would, whatever the sheet holds.
C14_FormatCorrected ==
    [][ \A selector \in Selectors, declarations \in Declarations, sheetIdName \in IdentifierNames :
          LET expected == expectedTable[selector][declarations]
              found    == scanSheet(rulesBefore, expected.selector, expected.propertiesArray)
          IN  appendToCSS(selector, declarations, sheetIdName)
              => /\ position' = found.position
                 /\ rulesAfter = applyPolicy(rulesBefore, found, expected.rule)
      ]_vars

\* The rules a call found in the sheet are, in their order, the first rules
\* of the sheet it left, the k-th left out (none for k = 0).
othersKept(k) ==
    LET kept == IF k = 0 THEN rulesBefore ELSE without(rulesBefore, k)
    IN  /\ Len(rulesAfter) >= Len(kept)
        /\ SubSeq(rulesAfter, 1, Len(kept)) = kept

\* C15: a call deletes at most one rule, and only a rule with the selector
\* text and the property names of the candidate; every other rule stays in
\* the sheet, unchanged and in the same order.
C15_DeletesOnlyMatchingRule ==
    [][ \A selector \in Selectors, declarations \in Declarations, sheetIdName \in IdentifierNames :
          LET candidate == candidateTable[selector][declarations]
          IN  appendToCSS(selector, declarations, sheetIdName)
              => \/ othersKept(0)
                 \/ \E k \in 1..Len(rulesBefore) :
                        /\ rulesBefore[k].selectorText = candidate.selector
                        /\ nameSet(rulesBefore[k].style) = writtenNameSet(candidate.declarations)
                        /\ othersKept(k)
      ]_vars

\* The places of the rules a call found in the sheet that have the selector
\* text and the property names of its candidate.
matchesOf(candidate) ==
    { k \in 1..Len(rulesBefore) :
          /\ rulesBefore[k].selectorText = candidate.selector
          /\ nameSet(rulesBefore[k].style) = writtenNameSet(candidate.declarations) }

\* The largest member of a non-empty set of numbers.
highest(places) == CHOOSE k \in places : \A j \in places : j <= k

\* C16: when several rules of the sheet have the selector text and the
\* property names of the candidate, the call deletes exactly one of them,
\* the one at the highest place, and appends the candidate.
C16_DeletesHighestMatch ==
    [][ \A selector \in Selectors, declarations \in Declarations, sheetIdName \in IdentifierNames :
          LET candidate == candidateTable[selector][declarations]
              matches   == matchesOf(candidate)
          IN  ( /\ Cardinality(matches) >= 2
                /\ appendToCSS(selector, declarations, sheetIdName) )
              => rulesAfter = Append(without(rulesBefore, highest(matches)), candidate.rule)
      ]_vars

\* The selector selects an element that carries a non-empty data-nonce.
tokenPresent(selector) ==
    /\ selector = "meta[name=web_author]"
    /\ metaDataNonce # Undefined
    /\ metaDataNonce # ""

\* C17: a getNonce call that finds no token (no element, an element without
\* data-nonce, or with an empty one) leaves the module variable nonce and
\* the document as they are; a token captured earlier is not reset.
C17_NoTokenNoChange ==
    [][ \A selector \in NonceSelectors :
          ( /\ ~tokenPresent(selector)
            /\ getNonce(selector) )
          => /\ nonce' = nonce
             /\ metaDataNonce' = metaDataNonce
             /\ styleElements' = styleElements
      ]_vars

\* C17 witness: the last getNonce call found no element, and the token
\* captured by an earlier call is still held.
C17_Witness ==
    /\ selected = "null"
    /\ nonce = PageNonce

\* The places of the STYLE elements with the id sheetIdName.
elementsNamed(elements, sheetIdName) ==
    { k \in 1..Len(elements) : elements[k].id = sheetIdName }

\* C18: a call with the identifier sheetIdName writes to the sheet of the
\* element with that id alone: the rules of the elements with another id are
\* as they were, and the candidate is the last rule of an element with the
\* id sheetIdName.
C18_OnlyNamedSheetWritten ==
    [][ \A selector \in Selectors, declarations \in Declarations, sheetIdName \in IdentifierNames :
          LET candidate == candidateTable[selector][declarations]
          IN  appendToCSS(selector, declarations, sheetIdName)
              => /\ \A k \in 1..Len(styleElements) :
                        styleElements[k].id # sheetIdName
                            => styleElements'[k].cssRules = styleElements[k].cssRules
                 /\ \E k \in elementsNamed(styleElements', sheetIdName) :
                        LET cssRules == styleElements'[k].cssRules
                        IN  /\ Len(cssRules) > 0
                            /\ cssRules[Len(cssRules)] = candidate.rule
      ]_vars

\* The two custom properties the demonstration page writes.
BackgroundColor ==
    <<"-", "-", "b", "a", "c", "k", "g", "r", "o", "u", "n", "d", "-", "c", "o", "l", "o", "r">>
FontSize == <<"-", "-", "f", "o", "n", "t", "-", "s", "i", "z", "e">>

\* The rule declares the property; the managed sheet holds such a rule.
declares(cssRule, name) == \E k \in 1..Len(cssRule.style) : cssRule.style[k].name = name
holdsRuleFor(name) == \E k \in 1..Len(managedRules) : declares(managedRules[k], name)

\* The managed sheet of the demonstration page: one STYLE element, at most
\* two rules, all for ':root', at most one declaring --background-color and
\* at most one declaring --font-size, the former with the value of the
\* colour input and the latter with h3FontSize px as their only declaration.
siteSheetInOrder ==
    /\ Len(styleElements) <= 1
    /\ Len(managedRules) <= 2
    /\ \A k \in 1..Len(managedRules) : managedRules[k].selectorText = SiteSelector
    /\ \A name \in { BackgroundColor, FontSize } :
           Cardinality({ k \in 1..Len(managedRules) : declares(managedRules[k], name) }) <= 1
    /\ \A k \in 1..Len(managedRules) :
           /\ declares(managedRules[k], BackgroundColor)
                  => managedRules[k].style
                         = << [ name |-> BackgroundColor, value |-> colorSelectorValue ] >>
           /\ declares(managedRules[k], FontSize)
                  => managedRules[k].style
                         = << [ name  |-> FontSize,
                                value |-> numberToString(h3FontSize) \o << "p", "x" >> ] >>

\* C19: after every event of the demonstration page the managed sheet is in
\* that order; a colour event leaves a --background-color rule and a click
\* a --font-size rule in it, and no event takes the rule of the other
\* property away.
C19_SiteSheetTwoRules ==
    [][ /\ siteSheetInOrder'
        /\ (\E value \in ColorValues : backgroundColorInput(value)) => holdsRuleFor(BackgroundColor)'
        /\ (plus1px \/ minus1px) => holdsRuleFor(FontSize)'
        /\ \A name \in { BackgroundColor, FontSize } : holdsRuleFor(name) => holdsRuleFor(name)'
      ]_vars

\* C19 witness: after a colour event and clicks down to -1px the sheet holds
\* the two rules, the --font-size rule last.
C19_Witness ==
    /\ h3FontSize = 0 - 1
    /\ managedRules
           = << [ selectorText |-> SiteSelector,
                  style |-> << [ name  |-> BackgroundColor,
                                 value |-> <<"#", "0", "0", "0", "0", "f", "f">> ] >> ],
                [ selectorText |-> SiteSelector,
                  style |-> << [ name |-> FontSize, value |-> <<"-", "1", "p", "x">> ] >> ] >>

\* C20: when every declaration of the rewritten block is written
\* 'name: value;', the names found in it are the names it declares, in the
\* order written; a colon inside a value yields no name.
C20_NamesExtractedInOrder ==
    ( /\ passes >= 1
      /\ rewritten.declarations = expectedBlock(rewritten.declarations) )
        => rewritten.propertiesArray = writtenNames(rewritten.declarations)

====
